---- MODULE Spec2Model ----
(***************************************************************************)
(* Model of hudsucker's Proxy (src/proxy/mod.rs): Proxy::start(), its      *)
(* accept loop, the per-connection tasks it spawns on a graceful-shutdown  *)
(* driver, and Proxy::service().                                           *)
(***************************************************************************)
EXTENDS Integers, Sequences, FiniteSets, TLC

\* ------------------------------------------------------------------ bounds
MaxConns == 2        \* connections accepted by one start()
MaxAcceptErrs == 1   \* accept attempts that fail during one start()

\* ------------------------------------------------------------- the inputs
None == << >>

Some(x) == <<x>>

\* A (possibly custom) hyper server builder, as far as HTTP/1 header case goes.
ServerConfigs == [title_case_headers : BOOLEAN, preserve_header_case : BOOLEAN]

\* self.server: Option<Builder<TokioExecutor>>
ServerOptions == {None} \cup {Some(c) : c \in ServerConfigs}

\* self.al: AddrOrListener
AddrOrListener == {[kind |-> "Addr", of |-> "addr"], [kind |-> "Listener", of |-> "given"]}

NoListener == "none"

\* A header name as it is spelled on the wire.
HeaderNames == { <<"a", "b">>, <<"A", "b">>, <<"a", "B">>, <<"A", "B">>, <<"a", "-", "B">> }

VARIABLES
    al,         \* self.al
    server,     \* self.server
    pc,         \* where start() / service() is
    srv,        \* the resolved server builder (None before it is resolved)
    listener,   \* the listener start() accepts on
    binds,      \* TcpListener::bind calls made
    signal,     \* the graceful_shutdown future: "pending" or "resolved"
    driver,     \* the Shutdown driver: "none", "waiting", "triggered"
    guards,     \* strong shutdown guards alive (one per running connection task)
    accepts,    \* results listener.accept() has yielded, Ok or Err
    conns,      \* accepted connections, in accept order
    tasks,      \* spawned connection tasks, in spawn order
    errLog,     \* error!() reports
    result,     \* what start() returned: "none", "Ok", "Err"
    config,     \* self.client, ca, http_handler, websocket_handler, websocket_connector
    ctx,        \* what each connection task captured at its accept, in spawn order
    proxies,    \* per connection, the InternalProxy of the exchange in flight
    svcProxy    \* the InternalProxy of the last request served through service()

vars == <<al, server, pc, srv, listener, binds, signal, driver, guards, accepts,
          conns, tasks, errLog, result, config, ctx, proxies, svcProxy>>

\* ------------------------------------------------- HTTP/1 header-name case
Lower(ch) == CASE ch = "A" -> "a" [] ch = "B" -> "b" [] OTHER -> ch

Upper(ch) == CASE ch = "a" -> "A" [] ch = "b" -> "B" [] OTHER -> ch

\* The name as the header map stores it (header names are stored in lower case).
LowerName(n) == [i \in 1..Len(n) |-> Lower(n[i])]

\* http1 title_case_headers: the first letter and every letter after '-' in upper case.
TitleCase(n) == [i \in 1..Len(n) |-> IF i = 1 \/ n[i - 1] = "-" THEN Upper(n[i]) ELSE n[i]]

\* Reading a header with the server's HTTP/1 settings: the original spelling is
\* kept beside the stored name only when preserve_header_case is on.
ParseHeader(cfg, n) ==
    [name |-> LowerName(n), orig |-> IF cfg.preserve_header_case THEN Some(n) ELSE None]

\* The per-request proxy with pass-through handlers: the header is not touched.
ProxyPass(h) == h

\* Writing a header with the server's HTTP/1 settings.
EncodeHeader(cfg, h) ==
    IF h.orig # None THEN h.orig[1]
    ELSE IF cfg.title_case_headers THEN TitleCase(h.name)
    ELSE h.name

\* One unmodified header through the pipeline of a connection served with cfg.
ServeHeader(cfg, n) == EncodeHeader(cfg, ProxyPass(ParseHeader(cfg, n)))

\* ----------------------------------------------------- the server builder
\* A default builder that title-cases header names but does not keep their case.
StartServer_NoPreserve(opt) ==
    IF opt = None THEN [title_case_headers |-> TRUE, preserve_header_case |-> FALSE]
    ELSE opt[1]

\* start(): self.server.unwrap_or_else(|| default builder)
StartServer(opt) ==
    IF opt = None THEN [title_case_headers |-> TRUE, preserve_header_case |-> TRUE]
    ELSE opt[1]

\* service(): self.server.unwrap_or_else(|| default builder)
ServiceServer(opt) ==
    IF opt = None THEN [title_case_headers |-> TRUE, preserve_header_case |-> TRUE]
    ELSE opt[1]

\* ------------------------------------------------------------ connections
\* The connection future built by serve_connection_with_upgrades for an accepted
\* stream: st is "open" until the future completes ("ok" / "err") or is dropped
\* unfinished ("dropped"); via is the listener it was accepted on; late tells
\* that the accept won the select! with the cancellation already out.
NewConn(l, late) ==
    [via |-> l, st |-> "open", inflight |-> FALSE, closeReq |-> FALSE,
     sentClose |-> FALSE, late |-> late]

\* The proxy as its builder assembled it, apart from al, server and the signal.
ProxyConfig ==
    [client |-> "client", ca |-> "ca", http_handler |-> "http_handler",
     websocket_handler |-> "websocket_handler",
     websocket_connector |-> Some("connector")]

\* The client address accept() returns with the c-th connection.
PeerAddr(c) == <<"peer", c>>

\* service(): client_addr: "127.0.0.1:80".parse().unwrap()
ServiceAddr == <<"127.0.0.1", 80>>

\* What the accept branch clones for the task of a connection accepted from addr.
ConnectionContext(cfg, s, addr) ==
    [server |-> s, client |-> cfg.client, ca |-> cfg.ca,
     http_handler |-> cfg.http_handler,
     websocket_handler |-> cfg.websocket_handler,
     websocket_connector |-> cfg.websocket_connector,
     client_addr |-> addr]

\* The InternalProxy the service_fn closure builds for one request from what it
\* captured.
InternalProxy(cx) ==
    [ca |-> cx.ca, client |-> cx.client, server |-> cx.server,
     http_handler |-> cx.http_handler,
     websocket_handler |-> cx.websocket_handler,
     websocket_connector |-> cx.websocket_connector,
     client_addr |-> cx.client_addr]

\* shutdown.spawn_task_fn: one task, owning the accepted connection c.
SpawnTask(ts, c) == Append(ts, [conn |-> c, st |-> "serving"])

\* guard.cancelled(): the shutdown driver has seen the signal.
Cancelled == driver = "triggered"

\* A loop handle taken with guard() instead of guard_weak(): one more strong guard.
GuardWeak_Strong(n) == n + 1

\* shutdown.guard_weak(): the accept loop's handle adds no strong guard to the n
\* that exist.
GuardWeak(n) == n

TaskIds == 1..Len(tasks)

Running(t) == tasks[t].st \in {"serving", "closing"}

\* The conn future can complete Ok only between exchanges; a transport error can
\* end it at any point.
CanFinish(c, res) == res = "err" \/ ~conns[c].inflight

\* A task whose guard is dropped only when its connection ended well.
TaskExit_GuardKeptOnError(t, res) ==
    /\ conns' = [conns EXCEPT ![tasks[t].conn].st = res]
    /\ tasks' = [tasks EXCEPT ![t].st = "exited"]
    /\ guards' = IF res = "err" THEN guards ELSE guards - 1
    /\ errLog' = IF res = "err" THEN [errLog EXCEPT !.serve = @ + 1] ELSE errLog

\* The end of a connection task: the result of the conn future is reported if it
\* is an error, and the task's guard is dropped.
TaskExit(t, res) ==
    /\ conns' = [conns EXCEPT ![tasks[t].conn].st = res]
    /\ tasks' = [tasks EXCEPT ![t].st = "exited"]
    /\ guards' = guards - 1
    /\ errLog' = IF res = "err" THEN [errLog EXCEPT !.serve = @ + 1] ELSE errLog

\* ------------------------------------------------------------------- Init
Init ==
    /\ al \in AddrOrListener
    /\ server \in ServerOptions
    /\ pc = "new"
    /\ srv = None
    /\ listener = NoListener
    /\ binds = 0
    /\ signal = "pending"
    /\ driver = "none"
    /\ guards = 0
    /\ accepts = 0
    /\ conns = << >>
    /\ tasks = << >>
    /\ errLog = [accept |-> 0, serve |-> 0]
    /\ result = "none"
    /\ config = ProxyConfig
    /\ ctx = << >>
    /\ proxies = << >>
    /\ svcProxy = None

\* --------------------------------------------------------------- start()
\* A start() that binds whatever it was given.
Start_AlwaysBind ==
    /\ pc = "new"
    /\ srv' = Some(StartServer(server))
    /\ pc' = "binding"
    /\ UNCHANGED <<al, server, listener, binds, signal, driver, guards, accepts,
                   conns, tasks, errLog, result>>
    /\ UNCHANGED <<config, ctx, proxies, svcProxy>>

\* start() up to its first suspension: the server builder is resolved; a
\* pre-bound listener is used as it is (Shutdown::new takes the signal and the
\* accept loop is entered), an address is bound (awaited).
Start ==
    /\ pc = "new"
    /\ srv' = Some(StartServer(server))
    /\ IF al.kind = "Listener"
       THEN /\ listener' = al.of
            /\ driver' = "waiting"
            /\ guards' = GuardWeak(guards)
            /\ pc' = "loop"
       ELSE /\ pc' = "binding"
            /\ UNCHANGED <<listener, driver, guards>>
    /\ UNCHANGED <<al, server, binds, signal, accepts, conns, tasks, errLog, result>>
    /\ UNCHANGED <<config, ctx, proxies, svcProxy>>

\* TcpListener::bind(addr).await succeeds; Shutdown::new takes the signal and the
\* accept loop is entered.
BindOk ==
    /\ pc = "binding"
    /\ binds' = binds + 1
    /\ listener' = "bound"
    /\ driver' = "waiting"
    /\ guards' = GuardWeak(guards)
    /\ pc' = "loop"
    /\ UNCHANGED <<al, server, srv, signal, accepts, conns, tasks, errLog, result>>
    /\ UNCHANGED <<config, ctx, proxies, svcProxy>>

\* A start() that builds the Shutdown before it binds: the failed start leaves
\* the driver behind, holding the signal.
BindErr_Leak ==
    /\ pc = "binding"
    /\ binds' = binds + 1
    /\ driver' = "waiting"
    /\ pc' = "failed"
    /\ result' = "Err"
    /\ UNCHANGED <<al, server, srv, listener, signal, guards, accepts, conns,
                   tasks, errLog>>
    /\ UNCHANGED <<config, ctx, proxies, svcProxy>>

\* TcpListener::bind(addr).await? fails: start() returns the error.
BindErr ==
    /\ pc = "binding"
    /\ binds' = binds + 1
    /\ pc' = "failed"
    /\ result' = "Err"
    /\ UNCHANGED <<al, server, srv, listener, signal, driver, guards, accepts,
                   conns, tasks, errLog>>
    /\ UNCHANGED <<config, ctx, proxies, svcProxy>>

\* ------------------------------------------------------- the environment
\* The caller's graceful_shutdown future resolves (stop.send(())).
SignalResolves ==
    /\ signal = "pending"
    /\ signal' = "resolved"
    /\ UNCHANGED <<al, server, pc, srv, listener, binds, driver, guards, accepts,
                   conns, tasks, errLog, result>>
    /\ UNCHANGED <<config, ctx, proxies, svcProxy>>

\* The task spawned by Shutdown::new sees the signal and cancels the guards.
DriverTrigger ==
    /\ driver = "waiting"
    /\ signal = "resolved"
    /\ driver' = "triggered"
    /\ UNCHANGED <<al, server, pc, srv, listener, binds, signal, guards, accepts,
                   conns, tasks, errLog, result>>
    /\ UNCHANGED <<config, ctx, proxies, svcProxy>>

\* -------------------------------------------------------- the accept loop
\* An accept that is still polled while start() drains.
AcceptOk_WhileDraining ==
    /\ pc \in {"loop", "drain"}
    /\ Len(conns) < MaxConns
    /\ accepts' = accepts + 1
    /\ conns' = Append(conns, NewConn(listener, Cancelled))
    /\ tasks' = SpawnTask(tasks, Len(conns) + 1)
    /\ guards' = guards + 1
    /\ ctx' = Append(ctx, ConnectionContext(config, srv[1], PeerAddr(Len(conns) + 1)))
    /\ proxies' = Append(proxies, None)
    /\ UNCHANGED <<al, server, pc, srv, listener, binds, signal, driver, errLog,
                   result>>
    /\ UNCHANGED <<config, svcProxy>>

\* An accept loop that looks at the cancellation once more after the accept and
\* lets go of a connection that came in too late.
AcceptOk_DropLate ==
    /\ pc = "loop"
    /\ Len(conns) < MaxConns
    /\ accepts' = accepts + 1
    /\ IF Cancelled
       THEN /\ conns' = Append(conns, [NewConn(listener, TRUE) EXCEPT !.st = "dropped"])
            /\ UNCHANGED <<tasks, guards, ctx>>
       ELSE /\ conns' = Append(conns, NewConn(listener, FALSE))
            /\ tasks' = SpawnTask(tasks, Len(conns) + 1)
            /\ guards' = guards + 1
            /\ ctx' = Append(ctx, ConnectionContext(config, srv[1], PeerAddr(Len(conns) + 1)))
    /\ proxies' = Append(proxies, None)
    /\ pc' = "loop"
    /\ UNCHANGED <<al, server, srv, listener, binds, signal, driver, errLog, result>>
    /\ UNCHANGED <<config, svcProxy>>

\* An accept branch that takes the WebSocket connector out of the proxy for the
\* first connection instead of cloning it.
AcceptOk_TakeConnector ==
    /\ pc = "loop"
    /\ Len(conns) < MaxConns
    /\ accepts' = accepts + 1
    /\ conns' = Append(conns, NewConn(listener, Cancelled))
    /\ tasks' = SpawnTask(tasks, Len(conns) + 1)
    /\ guards' = guards + 1
    /\ ctx' = Append(ctx, ConnectionContext(config, srv[1], PeerAddr(Len(conns) + 1)))
    /\ config' = [config EXCEPT !.websocket_connector = None]
    /\ proxies' = Append(proxies, None)
    /\ pc' = "loop"
    /\ UNCHANGED <<al, server, srv, listener, binds, signal, driver, errLog, result>>
    /\ UNCHANGED <<svcProxy>>

\* An accept loop that serves the connection itself instead of spawning a task.
AcceptOk_Inline ==
    /\ pc = "loop"
    /\ Len(conns) < MaxConns
    /\ accepts' = accepts + 1
    /\ conns' = Append(conns, NewConn(listener, Cancelled))
    /\ proxies' = Append(proxies, None)
    /\ pc' = "inline"
    /\ UNCHANGED <<al, server, srv, listener, binds, signal, driver, guards,
                   tasks, errLog, result>>
    /\ UNCHANGED <<config, ctx, svcProxy>>

\* select!: accept() yields Ok((tcp, client_addr)); a task is spawned for the
\* connection and the loop goes round.
AcceptOk ==
    /\ pc = "loop"
    /\ Len(conns) < MaxConns
    /\ accepts' = accepts + 1
    /\ conns' = Append(conns, NewConn(listener, Cancelled))
    /\ tasks' = SpawnTask(tasks, Len(conns) + 1)
    /\ guards' = guards + 1
    /\ ctx' = Append(ctx, ConnectionContext(config, srv[1], PeerAddr(Len(conns) + 1)))
    /\ proxies' = Append(proxies, None)
    /\ pc' = "loop"
    /\ UNCHANGED <<al, server, srv, listener, binds, signal, driver, errLog, result>>
    /\ UNCHANGED <<config, svcProxy>>

\* An accept failure that is returned from start() (accept()?).
AcceptErr_Fatal ==
    /\ pc = "loop"
    /\ accepts - Len(conns) < MaxAcceptErrs
    /\ accepts' = accepts + 1
    /\ pc' = "failed"
    /\ result' = "Err"
    /\ UNCHANGED <<al, server, srv, listener, binds, signal, driver, guards,
                   conns, tasks, errLog>>
    /\ UNCHANGED <<config, ctx, proxies, svcProxy>>

\* An accept failure that ends the loop (break instead of continue).
AcceptErr_Break ==
    /\ pc = "loop"
    /\ accepts - Len(conns) < MaxAcceptErrs
    /\ accepts' = accepts + 1
    /\ errLog' = [errLog EXCEPT !.accept = @ + 1]
    /\ pc' = "drain"
    /\ UNCHANGED <<al, server, srv, listener, binds, signal, driver, guards,
                   conns, tasks, result>>
    /\ UNCHANGED <<config, ctx, proxies, svcProxy>>

\* select!: accept() yields Err(e); it is reported and the loop continues.
AcceptErr ==
    /\ pc = "loop"
    /\ accepts - Len(conns) < MaxAcceptErrs
    /\ accepts' = accepts + 1
    /\ errLog' = [errLog EXCEPT !.accept = @ + 1]
    /\ pc' = "loop"
    /\ UNCHANGED <<al, server, srv, listener, binds, signal, driver, guards,
                   conns, tasks, result>>
    /\ UNCHANGED <<config, ctx, proxies, svcProxy>>

\* A loop that awaits accept() alone and looks at the cancellation only once a
\* connection has come in.
LoopCancelled_AfterAccept ==
    /\ pc = "loop"
    /\ Cancelled
    /\ Len(conns) < MaxConns
    /\ accepts' = accepts + 1
    /\ conns' = Append(conns, NewConn(listener, Cancelled))
    /\ tasks' = SpawnTask(tasks, Len(conns) + 1)
    /\ guards' = guards + 1
    /\ ctx' = Append(ctx, ConnectionContext(config, srv[1], PeerAddr(Len(conns) + 1)))
    /\ proxies' = Append(proxies, None)
    /\ pc' = "drain"
    /\ UNCHANGED <<al, server, srv, listener, binds, signal, driver, errLog, result>>
    /\ UNCHANGED <<config, svcProxy>>

\* select!: guard.cancelled() is ready; break, then shutdown.shutdown() is awaited.
LoopCancelled ==
    /\ pc = "loop"
    /\ Cancelled
    /\ pc' = "drain"
    /\ UNCHANGED <<al, server, srv, listener, binds, signal, driver, guards,
                   accepts, conns, tasks, errLog, result>>
    /\ UNCHANGED <<config, ctx, proxies, svcProxy>>

\* A drain that gives up on the connection tasks after a timeout.
DrainDone_Timeout ==
    /\ pc = "drain"
    /\ Cancelled
    /\ pc' = "done"
    /\ result' = "Ok"
    /\ UNCHANGED <<al, server, srv, listener, binds, signal, driver, guards,
                   accepts, conns, tasks, errLog>>
    /\ UNCHANGED <<config, ctx, proxies, svcProxy>>

\* shutdown.shutdown().await resolves once no strong guard is left; Ok(()).
DrainDone ==
    /\ pc = "drain"
    /\ Cancelled
    /\ guards = 0
    /\ pc' = "done"
    /\ result' = "Ok"
    /\ UNCHANGED <<al, server, srv, listener, binds, signal, driver, guards,
                   accepts, conns, tasks, errLog>>
    /\ UNCHANGED <<config, ctx, proxies, svcProxy>>

\* ----------------------------------------------------- a connection task
\* A dispatch that takes the client address from a slot every accept overwrites.
ConnRequest_LastAddr(t) ==
    /\ t \in TaskIds
    /\ Running(t)
    /\ conns[tasks[t].conn].st = "open"
    /\ ~conns[tasks[t].conn].inflight
    /\ ~conns[tasks[t].conn].closeReq
    /\ conns' = [conns EXCEPT ![tasks[t].conn].inflight = TRUE]
    /\ proxies' = [proxies EXCEPT ![tasks[t].conn] =
                      Some([InternalProxy(ctx[t]) EXCEPT !.client_addr = PeerAddr(Len(conns))])]
    /\ UNCHANGED <<al, server, pc, srv, listener, binds, signal, driver, guards,
                   accepts, tasks, errLog, result>>
    /\ UNCHANGED <<config, ctx, svcProxy>>

\* The conn future, polled by its task, reads a request and dispatches it.
ConnRequest(t) ==
    /\ t \in TaskIds
    /\ Running(t)
    /\ conns[tasks[t].conn].st = "open"
    /\ ~conns[tasks[t].conn].inflight
    /\ ~conns[tasks[t].conn].closeReq
    /\ conns' = [conns EXCEPT ![tasks[t].conn].inflight = TRUE]
    /\ proxies' = [proxies EXCEPT ![tasks[t].conn] = Some(InternalProxy(ctx[t]))]
    /\ UNCHANGED <<al, server, pc, srv, listener, binds, signal, driver, guards,
                   accepts, tasks, errLog, result>>
    /\ UNCHANGED <<config, ctx, svcProxy>>

\* The conn future writes the response of the exchange in flight; once a
\* graceful close was requested the response closes the connection.
ConnRespond(t) ==
    /\ t \in TaskIds
    /\ Running(t)
    /\ conns[tasks[t].conn].st = "open"
    /\ conns[tasks[t].conn].inflight
    /\ conns' = [conns EXCEPT ![tasks[t].conn] =
                    [@ EXCEPT !.inflight = FALSE,
                              !.sentClose = conns[tasks[t].conn].closeReq]]
    /\ proxies' = [proxies EXCEPT ![tasks[t].conn] = None]
    /\ UNCHANGED <<al, server, pc, srv, listener, binds, signal, driver, guards,
                   accepts, tasks, errLog, result>>
    /\ UNCHANGED <<config, ctx, svcProxy>>

\* A serving error that is returned from start().
ConnFinish_Fatal(t, res) ==
    /\ t \in TaskIds
    /\ tasks[t].st = "serving"
    /\ CanFinish(tasks[t].conn, res)
    /\ TaskExit(t, res)
    /\ pc' = IF res = "err" THEN "failed" ELSE pc
    /\ result' = IF res = "err" THEN "Err" ELSE result
    /\ UNCHANGED <<al, server, srv, listener, binds, signal, driver, accepts>>
    /\ UNCHANGED <<config, ctx, proxies, svcProxy>>

\* select!: the conn branch completes first; the task ends.
ConnFinish(t, res) ==
    /\ t \in TaskIds
    /\ tasks[t].st = "serving"
    /\ CanFinish(tasks[t].conn, res)
    /\ TaskExit(t, res)
    /\ UNCHANGED <<al, server, pc, srv, listener, binds, signal, driver, accepts,
                   result>>
    /\ UNCHANGED <<config, ctx, proxies, svcProxy>>

\* A task that asks its connection to close as soon as it runs, signal or not.
TaskCancelled_Eager(t) ==
    /\ t \in TaskIds
    /\ tasks[t].st = "serving"
    /\ conns' = [conns EXCEPT ![tasks[t].conn].closeReq = TRUE]
    /\ tasks' = [tasks EXCEPT ![t].st = "closing"]
    /\ UNCHANGED <<al, server, pc, srv, listener, binds, signal, driver, guards,
                   accepts, errLog, result>>
    /\ UNCHANGED <<config, ctx, proxies, svcProxy>>

\* A task that returns on cancellation, dropping the connection unfinished.
TaskCancelled_Drop(t) ==
    /\ t \in TaskIds
    /\ tasks[t].st = "serving"
    /\ Cancelled
    /\ conns' = [conns EXCEPT ![tasks[t].conn].st = "dropped"]
    /\ tasks' = [tasks EXCEPT ![t].st = "exited"]
    /\ guards' = guards - 1
    /\ UNCHANGED <<al, server, pc, srv, listener, binds, signal, driver, accepts,
                   errLog, result>>
    /\ UNCHANGED <<config, ctx, proxies, svcProxy>>

\* select!: guard.cancelled() completes first; graceful_shutdown() is requested
\* on the connection and the task goes on to conn.await.
TaskCancelled(t) ==
    /\ t \in TaskIds
    /\ tasks[t].st = "serving"
    /\ Cancelled
    /\ conns' = [conns EXCEPT ![tasks[t].conn].closeReq = TRUE]
    /\ tasks' = [tasks EXCEPT ![t].st = "closing"]
    /\ UNCHANGED <<al, server, pc, srv, listener, binds, signal, driver, guards,
                   accepts, errLog, result>>
    /\ UNCHANGED <<config, ctx, proxies, svcProxy>>

\* conn.await after graceful_shutdown(): the connection finishes; the task ends.
ClosingFinish(t, res) ==
    /\ t \in TaskIds
    /\ tasks[t].st = "closing"
    /\ CanFinish(tasks[t].conn, res)
    /\ TaskExit(t, res)
    /\ UNCHANGED <<al, server, pc, srv, listener, binds, signal, driver, accepts,
                   result>>
    /\ UNCHANGED <<config, ctx, proxies, svcProxy>>

\* -------------------------------------------------------------- service()
\* service(): the server builder is resolved and the service is returned.
Service ==
    /\ pc = "new"
    /\ srv' = Some(ServiceServer(server))
    /\ pc' = "service"
    /\ UNCHANGED <<al, server, listener, binds, signal, driver, guards, accepts,
                   conns, tasks, errLog, result>>
    /\ UNCHANGED <<config, ctx, proxies, svcProxy>>

\* The returned service is called with a request: an InternalProxy is built
\* from the clones the closure holds and the fixed client address.
ServiceCall ==
    /\ pc = "service"
    /\ svcProxy' = Some(InternalProxy(ConnectionContext(config, srv[1], ServiceAddr)))
    /\ UNCHANGED <<al, server, pc, srv, listener, binds, signal, driver, guards,
                   accepts, conns, tasks, errLog, result, config, ctx, proxies>>

\* ------------------------------------------------------------------- Next
Next ==
    \/ Start
    \/ BindOk
    \/ BindErr
    \/ SignalResolves
    \/ DriverTrigger
    \/ AcceptOk
    \/ AcceptErr
    \/ LoopCancelled
    \/ DrainDone
    \/ \E t \in TaskIds : ConnRequest(t)
    \/ \E t \in TaskIds : ConnRespond(t)
    \/ \E t \in TaskIds, res \in {"ok", "err"} : ConnFinish(t, res)
    \/ \E t \in TaskIds : TaskCancelled(t)
    \/ \E t \in TaskIds, res \in {"ok", "err"} : ClosingFinish(t, res)
    \/ Service
    \/ ServiceCall

Spec == Init /\ [][Next]_vars

\* A proxy built without server tuning.
FairInit == Init /\ server = None

\* The runtime polls every ready task, the shutdown driver and start() itself;
\* a connection that was asked to close gracefully finishes. The drain does not
\* depend on the server tuning, so the proxy is taken without any.
FairSpec ==
    /\ FairInit
    /\ [][Next]_vars
    /\ WF_vars(DriverTrigger)
    /\ WF_vars(LoopCancelled)
    /\ WF_vars(DrainDone)
    /\ \A t \in 1..MaxConns : WF_vars(TaskCancelled(t))
    /\ \A t \in 1..MaxConns : WF_vars(\E res \in {"ok", "err"} : ClosingFinish(t, res))

\* ------------------------------------------------------------- the claims
Finished(c) == conns[c].st \in {"ok", "err"}

\* C1: start() has returned Ok only when every connection task it spawned has
\* exited, its connection finished; nothing lets it return while a task runs.
C1_ReturnsAfterAllTasksExit ==
    result = "Ok" =>
        \A t \in TaskIds : tasks[t].st = "exited" /\ Finished(tasks[t].conn)

\* start() has returned and a task that was still serving at the cancellation
\* was waited for.
C1_Witness ==
    /\ result = "Ok"
    /\ \E t \in TaskIds : conns[tasks[t].conn].closeReq /\ tasks[t].st = "exited"

\* C2 as stated: from the moment the signal has resolved no connection is
\* accepted and no task is spawned.
C2_NoAcceptAfterSignal ==
    [][signal = "resolved" => Len(conns') = Len(conns) /\ Len(tasks') = Len(tasks)]_vars

\* A step taken after the accept loop was left.
LoopLeftStep ==
    pc \in {"drain", "done"} =>
        /\ pc' \in {"drain", "done"}
        /\ accepts' = accepts
        /\ Len(conns') = Len(conns)
        /\ Len(tasks') = Len(tasks)

\* C2 amended: once the accept loop has taken its cancellation branch it never
\* runs again, and from then on no accept yields and no task is spawned.
C2_NoAcceptAfterLoopExit == [][LoopLeftStep]_vars

\* The loop was left on cancellation while tasks run and more connections
\* could still have been taken.
C2_Witness ==
    /\ pc = "drain"
    /\ Len(conns) < MaxConns
    /\ guards > 0

\* A step in which task t takes the cancellation branch of its select!.
CancelStep(t) ==
    /\ t \in TaskIds
    /\ tasks[t].st = "serving"
    /\ tasks'[t].st # "serving"
    /\ conns'[tasks[t].conn].st \notin {"ok", "err"}

\* On cancellation the task asks its own connection to close gracefully and
\* goes on driving it: the connection stays open, with its exchange in flight.
GracefulCloseStep ==
    \A t \in TaskIds :
        CancelStep(t) =>
            /\ Cancelled
            /\ tasks'[t] = [conn |-> tasks[t].conn, st |-> "closing"]
            /\ conns'[tasks[t].conn] = [conns[tasks[t].conn] EXCEPT !.closeReq = TRUE]

\* A task that waits on a closing connection still drives it: the exchange in
\* flight can be answered, and the task is there only until the connection ends.
ClosingDrivesConn ==
    \A t \in TaskIds :
        tasks[t].st = "closing" =>
            /\ conns[tasks[t].conn].st = "open"
            /\ conns[tasks[t].conn].closeReq
            /\ conns[tasks[t].conn].inflight => ENABLED ConnRespond(t)

\* Where task t is, spawned or not.
TaskSt(t) == IF t \in TaskIds THEN tasks[t].st ELSE "unspawned"

\* A task ends only with its connection finished, never with it dropped.
NeverDropped ==
    \A t \in TaskIds : tasks[t].st = "exited" => Finished(tasks[t].conn)

\* C3: once the cancellation is out, every task still serving is notified, asks
\* its connection to close gracefully and keeps driving that connection until
\* it finishes; the task never drops the connection, so an exchange in flight
\* can complete.
C3_GracefulCloseKeepsDriving ==
    /\ [][GracefulCloseStep]_vars
    /\ [](ClosingDrivesConn /\ NeverDropped)
    /\ \A t \in 1..MaxConns :
          (TaskSt(t) = "serving" /\ Cancelled) ~> (TaskSt(t) \in {"closing", "exited"})

\* An exchange that was in flight at the cancellation was answered (with the
\* closing response) and the connection then finished cleanly.
C3_Witness ==
    \E t \in TaskIds :
        /\ tasks[t].st = "exited"
        /\ conns[tasks[t].conn].st = "ok"
        /\ conns[tasks[t].conn].closeReq
        /\ conns[tasks[t].conn].sentClose

\* C4: in the accept loop with the signal resolved, start() eventually returns
\* Ok(()), whatever the number of connections in flight.
C4_DrainTerminates ==
    (pc = "loop" /\ signal = "resolved") ~> (pc = "done" /\ result = "Ok")

\* start() has returned after draining as many connections as the bound allows,
\* all of them in flight at the cancellation.
C4_Witness ==
    /\ result = "Ok"
    /\ Len(tasks) = MaxConns
    /\ \A t \in TaskIds : conns[tasks[t].conn].closeReq

\* A step in which the connection of task t ends with a transport error.
ServeErrorStep(t) ==
    /\ t \in TaskIds
    /\ conns[tasks[t].conn].st = "open"
    /\ conns'[tasks[t].conn].st = "err"

\* The error ends task t alone and is reported; start() and every other task
\* and connection are as they were.
ServeErrorIsLocal ==
    \A t \in TaskIds :
        ServeErrorStep(t) =>
            /\ tasks'[t].st = "exited"
            /\ errLog'.serve = errLog.serve + 1
            /\ pc' = pc
            /\ result' = result
            /\ accepts' = accepts
            /\ \A u \in TaskIds \ {t} :
                  /\ tasks'[u] = tasks[u]
                  /\ conns'[tasks[u].conn] = conns[tasks[u].conn]

\* C5: a connection whose serving fails ends only its own task; the error is
\* reported, start() does not return it, the accept loop stays where it is and
\* the other tasks are untouched.
C5_ServeErrorIsLocal ==
    /\ [][ServeErrorIsLocal]_vars
    /\ [](result = "Err" => errLog.serve = 0 /\ Len(conns) = 0)

\* One connection has failed while the loop accepts and another task serves.
C5_Witness ==
    /\ pc = "loop"
    /\ errLog.serve > 0
    /\ \E t, u \in TaskIds :
          /\ conns[tasks[t].conn].st = "err"
          /\ tasks[u].st = "serving"

\* A step in which accept() yields an error: a result, but no connection.
AcceptFailStep == accepts' # accepts /\ Len(conns') = Len(conns)

\* The failure is reported once, nothing is spawned or disturbed, and the loop
\* is back at its select!.
AcceptFailContinues ==
    AcceptFailStep =>
        /\ errLog' = [errLog EXCEPT !.accept = @ + 1]
        /\ tasks' = tasks
        /\ conns' = conns
        /\ guards' = guards
        /\ pc = "loop"
        /\ pc' = "loop"
        /\ result' = result

\* C6: a failed accept is reported, spawns no task, leaves the running tasks as
\* they are, and the loop continues; start() does not return.
C6_AcceptErrorContinues == [][AcceptFailContinues]_vars

\* An accept failed and the loop is still accepting, with a task serving.
C6_Witness ==
    /\ errLog.accept > 0
    /\ pc = "loop"
    /\ \E t \in TaskIds : tasks[t].st = "serving"

\* C7: when the bind fails start() returns the error and nothing was created:
\* no listener, no accept, no connection, no task, no guard, and the signal was
\* not handed to a shutdown driver.
C7_BindErrorLeavesNothing ==
    (pc = "failed" \/ result = "Err") =>
        /\ pc = "failed"
        /\ result = "Err"
        /\ al.kind = "Addr"
        /\ listener = NoListener
        /\ driver = "none"
        /\ guards = 0
        /\ accepts = 0
        /\ conns = << >>
        /\ tasks = << >>
        /\ errLog = [accept |-> 0, serve |-> 0]

\* The bind failed; the caller's signal resolved and nobody holds it.
C7_Witness ==
    /\ pc = "failed"
    /\ signal = "resolved"

\* Every accepted connection has exactly one task and every task one accepted
\* connection.
OneTaskPerConn ==
    /\ Len(conns) = accepts - errLog.accept
    /\ \A c \in 1..Len(conns) : Cardinality({t \in TaskIds : tasks[t].conn = c}) = 1
    /\ \A t \in TaskIds : tasks[t].conn \in 1..Len(conns)

\* An accept spawns the task of the new connection and the loop is at its
\* select! again with the connection still open; no task changes its connection.
SpawnAndGoOn ==
    /\ Len(conns') > Len(conns) =>
          /\ Len(conns') = Len(conns) + 1
          /\ tasks' = Append(tasks, [conn |-> Len(conns'), st |-> "serving"])
          /\ conns'[Len(conns')].st = "open"
          /\ pc' = "loop"
    /\ \A t \in TaskIds : tasks'[t].conn = tasks[t].conn

\* C8: one task per accepted connection, owning it throughout; the loop spawns
\* and goes back to accepting without waiting for the connection.
C8_OneTaskPerConnection ==
    /\ []OneTaskPerConn
    /\ [][SpawnAndGoOn]_vars

\* As many tasks as the bound allows serve at once, an exchange in flight on
\* each, while the accept loop is at its select!.
C8_Witness ==
    /\ pc = "loop"
    /\ Len(tasks) = MaxConns
    /\ \A t \in TaskIds : tasks[t].st = "serving" /\ conns[tasks[t].conn].inflight

\* The HTTP/1 settings of the builder start() and service() fall back to.
DefaultServer == [title_case_headers |-> TRUE, preserve_header_case |-> TRUE]

\* Every header name goes through a connection served with cfg as it came.
Transparent(cfg) == \A n \in HeaderNames : ServeHeader(cfg, n) = n

C10_AddrXorListener ==
    /\ al.kind \in {"Addr", "Listener"}
    /\ al.kind = "Listener" =>
          /\ binds = 0
          /\ listener \in {NoListener, al.of}
          /\ \A c \in 1..Len(conns) : conns[c].via = al.of
    /\ al.kind = "Addr" =>
          /\ binds <= 1
          /\ (listener # NoListener \/ accepts > 0) => binds = 1 /\ listener = "bound"
          /\ \A c \in 1..Len(conns) : conns[c].via = "bound"

\* Connections were accepted on the listener the caller handed in.
C10_Witness ==
    /\ al.kind = "Listener"
    /\ binds = 0
    /\ Len(conns) = MaxConns

\* C11: the cancellation is polled beside the accept: with the cancellation out
\* the loop can always take its cancelled branch, and it leaves the loop after
\* the signal even when no connection ever arrives again.
C11_LoopExitsWithoutAccept ==
    /\ [](pc = "loop" /\ Cancelled => ENABLED LoopCancelled)
    /\ (pc = "loop" /\ signal = "resolved") ~> (pc # "loop")

\* The loop was left on cancellation although accept() never yielded anything.
C11_Witness ==
    /\ pc \in {"drain", "done"}
    /\ accepts = 0

\* The connections accepted with the cancellation already out.
LateConns == {c \in 1..Len(conns) : conns[c].late}

\* The task that owns connection c, if one was spawned.
TasksOf(c) == {t \in TaskIds : tasks[t].conn = c}

\* A late connection has its task; while the task runs the barrier holds a
\* guard for it and start() has not returned; the task ends only with the
\* connection finished, and once it waits on the connection it has asked it
\* to close.
LateConnTracked ==
    \A c \in LateConns :
        /\ TasksOf(c) # {}
        /\ \A t \in TasksOf(c) :
              /\ Running(t) => guards > 0 /\ result = "none" /\ conns[c].st = "open"
              /\ tasks[t].st = "closing" => conns[c].closeReq
              /\ tasks[t].st = "exited" => Finished(c)

\* An accept that wins against the cancellation spawns its task with a guard.
LateAcceptSpawns ==
    (Cancelled /\ Len(conns') > Len(conns)) =>
        /\ tasks' = Append(tasks, [conn |-> Len(conns'), st |-> "serving"])
        /\ guards' = guards + 1
        /\ conns'[Len(conns')].st = "open"
        /\ conns'[Len(conns')].late

\* C12: a connection accepted in a race with the cancellation is spawned as a
\* tracked task, is asked to close gracefully once its task sees the
\* cancellation, and is waited for by the barrier; it is never left untracked
\* or dropped.
C12_LateAcceptIsTrackedAndDrained ==
    /\ [][LateAcceptSpawns]_vars
    /\ []LateConnTracked
    /\ \A t \in 1..MaxConns :
          (TaskSt(t) = "serving" /\ Cancelled) ~> (TaskSt(t) \in {"closing", "exited"})

\* start() returned after a late connection was asked to close and finished.
C12_Witness ==
    /\ result = "Ok"
    /\ \E c \in LateConns : conns[c].closeReq /\ conns[c].st = "ok"

\* A step in which graceful_shutdown() is called on connection c.
CloseRequestStep(c) == conns'[c].closeReq /\ ~conns[c].closeReq

\* graceful_shutdown() is called by the connection's own task as it leaves its
\* select!, with the signal resolved and the connection not yet finished.
CloseRequestOnlyOnCancel ==
    \A c \in 1..Len(conns) :
        CloseRequestStep(c) =>
            /\ signal = "resolved"
            /\ Cancelled
            /\ conns[c].st = "open"
            /\ conns'[c].st = "open"
            /\ \E t \in TasksOf(c) : tasks[t].st = "serving" /\ tasks'[t].st = "closing"

\* The one place that calls graceful_shutdown() is passed at most once: a task
\* is in its select! only until it leaves it, and a finished connection is
\* not touched again.
SelectPassedOnce ==
    \A t \in TaskIds :
        /\ tasks[t].st # "serving" => tasks'[t].st # "serving"
        /\ tasks[t].st = "exited" =>
              /\ tasks'[t] = tasks[t]
              /\ conns'[tasks[t].conn] = conns[tasks[t].conn]

\* A connection is asked to close only under the cancellation; a task in its
\* select! whose connection is between exchanges can end without the signal.
CloseRequestedState ==
    /\ \A c \in 1..Len(conns) : conns[c].closeReq => signal = "resolved" /\ Cancelled
    /\ \A t \in TaskIds :
          tasks[t].st = "serving" =>
              /\ ~conns[tasks[t].conn].closeReq
              /\ ENABLED ConnFinish(t, "err")
              /\ ~conns[tasks[t].conn].inflight => ENABLED ConnFinish(t, "ok")

\* C13: a task requests the graceful close of its connection at most once,
\* only after the signal has resolved and only while the connection has not
\* finished; a connection that finishes before the signal is never asked to
\* close, and its task exits without waiting for the signal.
C13_CloseRequestedOnceOnCancel ==
    /\ [][CloseRequestOnlyOnCancel /\ SelectPassedOnce]_vars
    /\ []CloseRequestedState

\* With the signal still pending one task has ended on a clean finish and one on
\* an error, neither connection having been asked to close.
C13_Witness ==
    /\ signal = "pending"
    /\ \E t, u \in TaskIds :
          /\ tasks[t].st = "exited" /\ tasks[u].st = "exited"
          /\ conns[tasks[t].conn].st = "ok" /\ ~conns[tasks[t].conn].closeReq
          /\ conns[tasks[u].conn].st = "err" /\ ~conns[tasks[u].conn].closeReq

\* The connection tasks that were spawned and have not exited.
LiveTasks == {t \in TaskIds : Running(t)}

\* C14: the strong guards outstanding are exactly the live connection tasks,
\* however the others exited; the loop's own handle is not among them, so a
\* draining start() with no live task can return at once.
C14_GuardsCountLiveTasks ==
    /\ guards = Cardinality(LiveTasks)
    /\ (pc = "loop" /\ tasks = << >>) => guards = 0
    /\ (pc = "drain" /\ LiveTasks = {}) => ENABLED DrainDone

\* One guard is out for one live task, after one task ended on an error and
\* while the live one closes on cancellation.
C14_Witness ==
    /\ guards = 1
    /\ \E t, u \in TaskIds :
          /\ tasks[t].st = "exited" /\ conns[tasks[t].conn].st = "err"
          /\ tasks[u].st = "closing"

\* The accept loop is left only through its cancelled branch, into the drain.
LoopExitOnlyOnCancel ==
    (pc = "loop" /\ pc' # "loop") => (Cancelled /\ signal = "resolved" /\ pc' = "drain")

\* C15: start() returns Ok(()) only with the signal resolved: no accept
\* failure, no connection error and no number of finished connections ends the
\* loop or the call while the signal is pending.
C15_OkOnlyAfterSignal ==
    /\ [][LoopExitOnlyOnCancel]_vars
    /\ [](pc \in {"drain", "done"} \/ result = "Ok" => signal = "resolved" /\ Cancelled)
    /\ [](signal = "pending" /\ pc \notin {"new", "binding", "service"} => pc \in {"loop", "failed"})

\* start() returned Ok after an accept failure, a connection error and a
\* connection that finished cleanly.
C15_Witness ==
    /\ result = "Ok"
    /\ errLog.accept > 0
    /\ errLog.serve > 0
    /\ \E c \in 1..Len(conns) : conns[c].st = "ok"

\* C16: a request on a connection start() accepted is dispatched with the
\* client address its own accept returned, never another connection's nor the
\* fixed one; a request through service() carries 127.0.0.1:80.
C16_ClientAddrIsOwn ==
    /\ \A t \in TaskIds : ctx[t].client_addr = PeerAddr(tasks[t].conn)
    /\ \A c \in 1..Len(proxies) :
          proxies[c] # None =>
              /\ proxies[c][1].client_addr = PeerAddr(c)
              /\ proxies[c][1].client_addr # ServiceAddr
              /\ \A d \in 1..Len(conns) : d # c => proxies[c][1].client_addr # PeerAddr(d)
    /\ svcProxy # None => svcProxy[1].client_addr = ServiceAddr

\* Requests are in flight on two connections at once, each dispatched with its
\* own client address.
C16_Witness ==
    /\ Len(conns) >= 2
    /\ proxies[1] # None
    /\ proxies[2] # None
    /\ proxies[1][1].client_addr # proxies[2][1].client_addr

\* What a connection or a request holds of the configuration.
ConfigOf(x) ==
    [client |-> x.client, ca |-> x.ca, http_handler |-> x.http_handler,
     websocket_handler |-> x.websocket_handler,
     websocket_connector |-> x.websocket_connector]

\* No step changes the proxy's configuration or the server it resolved.
ConfigStays ==
    /\ config' = config
    /\ server' = server
    /\ al' = al
    /\ srv # None => srv' = srv

\* Every connection and every request holds the configuration the proxy was
\* built with and the server it resolved.
ClonesMatchConfig ==
    /\ config = ProxyConfig
    /\ srv # None => srv[1] \in {StartServer(server), ServiceServer(server)}
    /\ \A t \in TaskIds : ConfigOf(ctx[t]) = config /\ ctx[t].server = srv[1]
    /\ \A t \in TaskIds : ConfigOf(ctx[t]) = ConfigOf(ctx[1])
    /\ \A c \in 1..Len(proxies) :
          proxies[c] # None =>
              ConfigOf(proxies[c][1]) = config /\ proxies[c][1].server = srv[1]
    /\ svcProxy # None => ConfigOf(svcProxy[1]) = config /\ svcProxy[1].server = srv[1]

\* C17: accepting, serving and shutting down never change the server settings,
\* client, certificate authority, handlers or WebSocket connector; every
\* connection and request holds clones equal to those of the first.
C17_ConfigImmutable ==
    /\ [][ConfigStays]_vars
    /\ []ClonesMatchConfig

\* start() has returned after serving as many connections as the bound allows,
\* one of them answered during the drain.
C17_Witness ==
    /\ result = "Ok"
    /\ Len(ctx) = MaxConns
    /\ \E c \in 1..Len(conns) : conns[c].sentClose

====
